---------------------------- MODULE Spec2Model ----------------------------
(* serde-gettext: resolution of a deserialized Value tree into a String.   *)
(* Strings are sequences of one-character strings, so that formatting,     *)
(* number rendering and translation are computed and not assumed.          *)
EXTENDS Integers, Sequences, FiniteSets, TLC

(***************************************************************************)
(* Bounds of the model.                                                    *)
(***************************************************************************)
\* longest Array (separator included) drawn for the root node
MaxArrayLen == 3
\* longest positional argument list drawn for the root node
MaxPositional == 2
\* largest plural count n drawn for a plural node
MaxCount == 2

(***************************************************************************)
(* Text literals used by the inputs.                                       *)
(***************************************************************************)
sYes == <<"y", "e", "s">>
sNo == <<"n", "o">>
sNA == <<"n", "/", "a">>
sOui == <<"o", "u", "i">>
sMarie == <<"M", "a", "r", "i", "e">>
sGrace == <<"G", "r", "a", "c", "e">>
sComma == <<",", " ">>
sHello == <<"H", "i", "!">>
sSalut == <<"S", "a", "l", "u", "t", "!">>
kName == <<"n", "a", "m", "e">>
kN == <<"n">>
\* "Hi %(name)s!"
sHiName == <<"H", "i", " ", "%", "(", "n", "a", "m", "e", ")", "s", "!">>
\* "%(n)s item" / "%(n)s items" and a translation pair "%(n)s objet(s)"
sNItem == <<"%", "(", "n", ")", "s", " ", "i", "t", "e", "m">>
sNItems == sNItem \o <<"s">>
sNObjet == <<"%", "(", "n", ")", "s", " ", "o", "b", "j", "e", "t">>
sNObjets == sNObjet \o <<"s">>
\* "%s+%s"
sPosPos == <<"%", "s", "+", "%", "s">>
\* "%s %(name)s"
sPosName == <<"%", "s", " ", "%", "(", "n", "a", "m", "e", ")", "s">>
\* "at %s" (a strftime pattern)
sAtEpoch == <<"a", "t", " ", "%", "s">>
sDomain == <<"d", "o", "m">>
sCtx == <<"c", "t", "x">>

(***************************************************************************)
(* Result<String, Error>                                                   *)
(***************************************************************************)
MissingJoinSeparator == [kind |-> "MissingJoinSeparator"]
FormatError(diag) == [kind |-> "FormatError", msg |-> diag]
Ok(s) == [ok |-> TRUE, val |-> s]
Err(e) == [ok |-> FALSE, err |-> e]

(***************************************************************************)
(* Integer / Float / u32 to_string                                         *)
(***************************************************************************)
Digit == <<"0", "1", "2", "3", "4", "5", "6", "7", "8", "9">>

RECURSIVE DecimalDigits(_)
DecimalDigits(n) ==
    IF n < 10 THEN <<Digit[n + 1]>>
    ELSE DecimalDigits(n \div 10) \o <<Digit[(n % 10) + 1]>>

IntegerToString(x) ==
    IF x < 0 THEN <<"-">> \o DecimalDigits(-x) ELSE DecimalDigits(x)

\* a Float is held as a count of hundredths; Display prints the shortest
\* decimal text that reads back as the same number
FloatToString(h) ==
    LET a == IF h < 0 THEN -h ELSE h
        sign == IF h < 0 THEN <<"-">> ELSE << >>
        whole == DecimalDigits(a \div 100)
        frac == a % 100
    IN  IF frac = 0 THEN sign \o whole
        ELSE IF frac % 10 = 0 THEN sign \o whole \o <<".", Digit[(frac \div 10) + 1]>>
        ELSE sign \o whole \o <<".", Digit[(frac \div 10) + 1], Digit[(frac % 10) + 1]>>

(***************************************************************************)
(* DateTime renderer (libc strftime): the conversion %s is the epoch in    *)
(* seconds, every other character is copied.                               *)
(***************************************************************************)
RECURSIVE strftime_from(_, _, _)
strftime_from(pattern, i, epoch) ==
    IF i > Len(pattern) THEN << >>
    ELSE IF pattern[i] = "%" /\ i < Len(pattern) /\ pattern[i + 1] = "s"
         THEN IntegerToString(epoch) \o strftime_from(pattern, i + 2, epoch)
         ELSE <<pattern[i]>> \o strftime_from(pattern, i + 1, epoch)

strftime_local(pattern, epoch) == strftime_from(pattern, 1, epoch)

(***************************************************************************)
(* Translation oracle (gettextrs).  The catalog of the process locale maps *)
(* (category, domain, context, msgid) to the plural forms of a             *)
(* translation; an absent entry falls back to the msgid itself.            *)
(***************************************************************************)
DefaultDomain == <<"m", "s", "g">>
NoCtx == << >>
CatKey(category, domain, ctx, msgid) ==
    [category |-> category, domain |-> domain, ctx |-> ctx, msgid |-> msgid]

Catalog ==
    (CatKey("LcMessages", DefaultDomain, NoCtx, sYes) :> <<sOui>>)
    @@ (CatKey("LcMessages", DefaultDomain, NoCtx, sHello) :> <<sSalut>>)
    @@ (CatKey("LcMessages", DefaultDomain, NoCtx, sNItem) :> <<sNObjet, sNObjets>>)
    @@ (CatKey("LcMessages", sDomain, NoCtx, sHiName) :> <<sSalut>>)
    @@ (CatKey("LcMessages", DefaultDomain, sCtx, sHello) :> <<sHiName>>)

\* plural rule of the catalog's language: the plural form is used for n > 1
PluralForm(n) == IF n > 1 THEN 2 ELSE 1

Translate(category, domain, ctx, msgid) ==
    LET k == CatKey(category, domain, ctx, msgid)
    IN  IF k \in DOMAIN Catalog THEN Catalog[k][1] ELSE msgid

TranslatePlural(category, domain, ctx, singular, plural, n) ==
    LET k == CatKey(category, domain, ctx, singular)
    IN  IF k \in DOMAIN Catalog /\ PluralForm(n) <= Len(Catalog[k])
        THEN Catalog[k][PluralForm(n)]
        ELSE IF n = 1 THEN singular ELSE plural

gettext(msgid) == Translate("LcMessages", DefaultDomain, NoCtx, msgid)
ngettext(singular, plural, n) ==
    TranslatePlural("LcMessages", DefaultDomain, NoCtx, singular, plural, n)
pgettext(ctx, msgid) == Translate("LcMessages", DefaultDomain, ctx, msgid)
dgettext(domain, msgid) == Translate("LcMessages", domain, NoCtx, msgid)
dngettext(domain, singular, plural, n) ==
    TranslatePlural("LcMessages", domain, NoCtx, singular, plural, n)
npgettext(ctx, singular, plural, n) ==
    TranslatePlural("LcMessages", DefaultDomain, ctx, singular, plural, n)
dcngettext(domain, singular, plural, n, category) ==
    TranslatePlural(category, domain, NoCtx, singular, plural, n)

\* From<LocaleCategory> for gettextrs::LocaleCategory
LocaleCategoryInto ==
    [ctype |-> "LcCType", numeric |-> "LcNumeric", time |-> "LcTime",
     collate |-> "LcCollate", monetary |-> "LcMonetary", messages |-> "LcMessages",
     all |-> "LcAll", paper |-> "LcPaper", name |-> "LcName", address |-> "LcAddress",
     telephone |-> "LcTelephone", measurement |-> "LcMeasurement",
     identification |-> "LcIdentification"]

(***************************************************************************)
(* Placeholder formatter (dynfmt PythonFormat): %s takes the next          *)
(* positional argument, %(key)s the argument named key.                    *)
(***************************************************************************)
\* impl FormatArgs for UnionMap: the local map first, then the base map
\* (FormatArgs::get_index and get_key both default to Err(()): a Vec answers
\* get_index only, the UnionMap get_key only)
UnionMap(a, b) == [a |-> a, b |-> b]
ArgList(xs) == [list |-> xs]
has_get_index(args) == "list" \in DOMAIN args
has_get_key(args) == "a" \in DOMAIN args

\* a lookup that answers an unbound key with the empty text
get_key_or_empty(self, key) ==
    IF key \in DOMAIN self.a THEN [some |-> TRUE, v |-> self.a[key]]
    ELSE IF key \in DOMAIN self.b THEN [some |-> TRUE, v |-> self.b[key]]
    ELSE [some |-> TRUE, v |-> << >>]

\* a lookup that asks the base map first
get_key_base_first(self, key) ==
    IF key \in DOMAIN self.b THEN [some |-> TRUE, v |-> self.b[key]]
    ELSE IF key \in DOMAIN self.a THEN [some |-> TRUE, v |-> self.a[key]]
    ELSE [some |-> FALSE]

get_key(self, key) ==
    IF key \in DOMAIN self.a THEN [some |-> TRUE, v |-> self.a[key]]
    ELSE IF key \in DOMAIN self.b THEN [some |-> TRUE, v |-> self.b[key]]
    ELSE [some |-> FALSE]

WordChar(c) == c \notin {"%", "(", ")", " ", "!", "+", ",", "/", ".", "-"}

\* the index of the ")" closing a "%(" opened at i, or 0
RECURSIVE KeyEnd(_, _)
KeyEnd(message, j) ==
    IF j > Len(message) THEN 0
    ELSE IF message[j] = ")" THEN j
    ELSE IF WordChar(message[j]) THEN KeyEnd(message, j + 1)
    ELSE 0

Diag(what, pos) == [what |-> what, pos |-> pos]

RECURSIVE FormatFrom(_, _, _, _)
FormatFrom(message, i, next, args) ==
    IF i > Len(message) THEN Ok(<< >>)
    ELSE LET e == IF i < Len(message) /\ message[i] = "%" /\ message[i + 1] = "("
                  THEN KeyEnd(message, i + 2) ELSE 0
             named == e > i + 2 /\ e < Len(message) /\ message[e + 1] = "s"
             positional == message[i] = "%" /\ i < Len(message) /\ message[i + 1] = "s"
         IN  IF named
             THEN LET key == SubSeq(message, i + 2, e - 1)
                  IN  IF ~has_get_key(args) THEN Err(Diag("MapRequired", << >>))
                      ELSE IF ~get_key(args, key).some THEN Err(Diag("MissingArg", key))
                      ELSE LET rest == FormatFrom(message, e + 2, next, args)
                           IN  IF rest.ok THEN Ok(get_key(args, key).v \o rest.val)
                               ELSE rest
             ELSE IF positional
             THEN IF ~has_get_index(args) THEN Err(Diag("ListRequired", << >>))
                  ELSE IF next > Len(args.list)
                       THEN Err(Diag("MissingArg", IntegerToString(next - 1)))
                  ELSE LET rest == FormatFrom(message, i + 2, next + 1, args)
                       IN  IF rest.ok THEN Ok(args.list[next] \o rest.val) ELSE rest
             ELSE LET rest == FormatFrom(message, i + 1, next, args)
                  IN  IF rest.ok THEN Ok(<<message[i]>> \o rest.val) ELSE rest

PythonFormat(message, args) == FormatFrom(message, 1, 1, args)

(***************************************************************************)
(* enum Value and enum Formatter                                           *)
(***************************************************************************)
NoArgs == [kind |-> "None"]
KeywordArgs(kwargs) == [kind |-> "KeywordArgs", kwargs |-> kwargs]
PositionalArgs(list) == [kind |-> "PositionalArgs", list |-> list]

Text(s) == [type |-> "Text", text |-> s]
Integer(i) == [type |-> "Integer", int |-> i]
Float(h) == [type |-> "Float", hundredths |-> h]
Bool(b) == [type |-> "Bool", bool |-> b]
Unit == [type |-> "Unit"]
Datetime(p, e) == [type |-> "Datetime", strftime |-> p, epoch |-> e]
Array(xs) == [type |-> "Array", xs |-> xs]
FormattedText(t, a) == [type |-> "FormattedText", text |-> t, args |-> a]
GetText(m, a) == [type |-> "GetText", msgid |-> m, args |-> a]
NGetText(s, p, n, a) ==
    [type |-> "NGetText", singular |-> s, plural |-> p, n |-> n, args |-> a]
PGetText(c, m, a) == [type |-> "PGetText", ctx |-> c, msgid |-> m, args |-> a]
DGetText(d, m, a) == [type |-> "DGetText", domain |-> d, msgid |-> m, args |-> a]
DNGetText(d, s, p, n, a) ==
    [type |-> "DNGetText", domain |-> d, singular |-> s, plural |-> p, n |-> n,
     args |-> a]
NPGetText(c, s, p, n, a) ==
    [type |-> "NPGetText", ctx |-> c, singular |-> s, plural |-> p, n |-> n,
     args |-> a]
DCNGetText(d, s, p, n, c, a) ==
    [type |-> "DCNGetText", domain |-> d, singular |-> s, plural |-> p, n |-> n,
     category |-> c, args |-> a]

PluralTypes == {"NGetText", "DNGetText", "NPGetText", "DCNGetText"}
SimpleTypes == {"FormattedText", "GetText", "PGetText", "DGetText"}

\* ToString of the Value*GetText structs: the call into the oracle
OracleString(v) ==
    CASE v.type = "GetText" -> gettext(v.msgid)
      [] v.type = "NGetText" -> ngettext(v.singular, v.plural, v.n)
      [] v.type = "PGetText" -> pgettext(v.ctx, v.msgid)
      [] v.type = "DGetText" -> dgettext(v.domain, v.msgid)
      [] v.type = "DNGetText" -> dngettext(v.domain, v.singular, v.plural, v.n)
      [] v.type = "NPGetText" -> npgettext(v.ctx, v.singular, v.plural, v.n)
      [] v.type = "DCNGetText" ->
            dcngettext(v.domain, v.singular, v.plural, v.n,
                       LocaleCategoryInto[v.category])

(***************************************************************************)
(* The record of one resolution: which calls were made, in which order.    *)
(* A node is named by its path from the root.                              *)
(***************************************************************************)
Step(in, i, key) == [in |-> in, i |-> i, key |-> key]
EvResolve(path) == [ev |-> "resolve", path |-> path]
EvOracle(path, s) == [ev |-> "oracle", path |-> path, template |-> s]
EvFormat(path, message, fargs) ==
    [ev |-> "format", path |-> path, message |-> message, fargs |-> fargs]
EvReturn(path, out) == [ev |-> "return", path |-> path, out |-> out]

Run(out, log) == [out |-> out, log |-> log]
Return(path, log, out) == Run(out, Append(log, EvReturn(path, out)))

\* an insertion that keeps the value a key already has
insert_keep_first(map, key, v) ==
    [k \in DOMAIN map \cup {key} |-> IF k \in DOMAIN map THEN map[k] ELSE v]

\* HashMap::insert
Insert(map, key, v) ==
    [k \in DOMAIN map \cup {key} |-> IF k = key THEN v ELSE map[k]]
EmptyMap == [k \in {} |-> << >>]

\* a join that also closes the text with the separator
RECURSIVE join_trailing(_, _)
join_trailing(vec, sep) ==
    IF Len(vec) = 0 THEN << >>
    ELSE vec[1] \o sep \o join_trailing(Tail(vec), sep)

\* Vec<String>::join
RECURSIVE join(_, _)
join(vec, sep) ==
    IF Len(vec) = 0 THEN << >>
    ELSE IF Len(vec) = 1 THEN vec[1]
    ELSE vec[1] \o sep \o join(Tail(vec), sep)

\* iteration order of a HashMap with these keys under the hasher state `order`
\* (a permutation of the key universe): unspecified by the language
IterKeys(order, keys) == SelectSeq(order, LAMBDA k : k \in keys)

\* .map_err(|err| Error::FormatError(format!("{}", err)))
map_err(r) == IF r.ok THEN r ELSE Err(FormatError(r.err))

RECURSIVE try_into_string(_, _, _, _)
RECURSIVE collect(_, _, _, _, _, _)
RECURSIVE insert_all(_, _, _, _, _, _, _)

\* a loop that goes on resolving after a failure and reports the first error
collect_all(xs, i, in, base_map, path, order) ==
    IF i > Len(xs) THEN Run(Ok(<< >>), << >>)
    ELSE LET r == try_into_string(xs[i], base_map,
                                  Append(path, Step(in, i, << >>)), order)
             rest == collect(xs, i + 1, in, base_map, path, order)
         IN  IF ~r.out.ok THEN Run(r.out, r.log \o rest.log)
             ELSE IF rest.out.ok
                  THEN Run(Ok(<<r.out.val>> \o rest.out.val), r.log \o rest.log)
                  ELSE Run(rest.out, r.log \o rest.log)

\* the loop `for value in it { vec.push(value.try_into_string(base_map)?) }` and
\* the collect::<Result<Vec<String>, _>>() of the positional arguments:
\* xs[i..] in order, stopping at the first error
collect(xs, i, in, base_map, path, order) ==
    IF i > Len(xs) THEN Run(Ok(<< >>), << >>)
    ELSE LET r == try_into_string(xs[i], base_map,
                                  Append(path, Step(in, i, << >>)), order)
         IN  IF ~r.out.ok THEN r
             ELSE LET rest == collect(xs, i + 1, in, base_map, path, order)
                  IN  IF rest.out.ok
                      THEN Run(Ok(<<r.out.val>> \o rest.out.val), r.log \o rest.log)
                      ELSE Run(rest.out, r.log \o rest.log)

\* an insertion loop that lets each value see the bindings made so far
insert_all_leaky(keys, i, kwargs, map, base_map, path, order) ==
    IF i > Len(keys) THEN Run(Ok(map), << >>)
    ELSE LET seen == [k \in DOMAIN map \cup DOMAIN base_map |->
                         IF k \in DOMAIN map THEN map[k] ELSE base_map[k]]
             r == try_into_string(kwargs[keys[i]], seen,
                                  Append(path, Step("kwarg", 0, keys[i])), order)
         IN  IF ~r.out.ok THEN r
             ELSE LET rest == insert_all(keys, i + 1, kwargs,
                                         Insert(map, keys[i], r.out.val),
                                         base_map, path, order)
                  IN  Run(rest.out, r.log \o rest.log)

\* an insertion loop that resolves the values against an empty base map
insert_all_no_base(keys, i, kwargs, map, base_map, path, order) ==
    IF i > Len(keys) THEN Run(Ok(map), << >>)
    ELSE LET r == try_into_string(kwargs[keys[i]], EmptyMap,
                                  Append(path, Step("kwarg", 0, keys[i])), order)
         IN  IF ~r.out.ok THEN r
             ELSE LET rest == insert_all(keys, i + 1, kwargs,
                                         Insert(map, keys[i], r.out.val),
                                         base_map, path, order)
                  IN  Run(rest.out, r.log \o rest.log)

\* the loop `for (key, value) in kwargs { map.insert(key, value.try_into_string(..)?) }`
insert_all(keys, i, kwargs, map, base_map, path, order) ==
    IF i > Len(keys) THEN Run(Ok(map), << >>)
    ELSE LET r == try_into_string(kwargs[keys[i]], base_map,
                                  Append(path, Step("kwarg", 0, keys[i])), order)
         IN  IF ~r.out.ok THEN r
             ELSE LET rest == insert_all(keys, i + 1, kwargs,
                                         Insert(map, keys[i], r.out.val),
                                         base_map, path, order)
                  IN  Run(rest.out, r.log \o rest.log)

\* Value::format, the Some(Formatter::KeywordArgs(kwargs)) arm
format_keyword(message, kwargs, map, base_map, path, order) ==
    LET ins == insert_all(IterKeys(order, DOMAIN kwargs), 1, kwargs, map,
                          base_map, path, order)
    IN  IF ~ins.out.ok THEN ins
        ELSE LET fargs == UnionMap(ins.out.val, base_map)
             IN  Run(map_err(PythonFormat(message, fargs)),
                     Append(ins.log, EvFormat(path, message, fargs)))

\* a positional arm whose arguments also answer named keys from the base map
format_positional_with_base(message, list, base_map, path, order) ==
    LET col == collect(list, 1, "arg", base_map, path, order)
    IN  IF ~col.out.ok THEN col
        ELSE LET fargs == [list |-> col.out.val, a |-> EmptyMap, b |-> base_map]
             IN  Run(map_err(PythonFormat(message, fargs)),
                     Append(col.log, EvFormat(path, message, fargs)))

\* Value::format, the Some(Formatter::PositionalArgs(args)) arm
format_positional(message, list, base_map, path, order) ==
    LET col == collect(list, 1, "arg", base_map, path, order)
    IN  IF ~col.out.ok THEN col
        ELSE LET fargs == ArgList(col.out.val)
             IN  Run(map_err(PythonFormat(message, fargs)),
                     Append(col.log, EvFormat(path, message, fargs)))

\* a None arm that returns the template as it is
format_none_raw(message, map, base_map, path) == Run(Ok(message), << >>)

\* Value::format, the None arm
format_none(message, map, base_map, path) ==
    LET fargs == UnionMap(map, base_map)
    IN  Run(map_err(PythonFormat(message, fargs)),
            <<EvFormat(path, message, fargs)>>)

\* Value::format
format(message, formatter, map, base_map, path, order) ==
    CASE formatter.kind = "KeywordArgs" ->
            format_keyword(message, formatter.kwargs, map, base_map, path, order)
      [] formatter.kind = "PositionalArgs" ->
            format_positional(message, formatter.list, base_map, path, order)
      [] formatter.kind = "None" -> format_none(message, map, base_map, path)

\* a handler that asks the oracle only once the arguments are resolved
handle_gettext_lazy(s, base_map, path, order) ==
    LET message == OracleString(s)
        f == format(message, s.args, EmptyMap, base_map, path, order)
        n == Len(f.log)
    IN  IF n > 0 /\ f.log[n].ev = "format" /\ f.log[n].path = path
        THEN Run(f.out, SubSeq(f.log, 1, n - 1) \o <<EvOracle(path, message), f.log[n]>>)
        ELSE Run(f.out, f.log)

\* handle_gettext!
handle_gettext(s, base_map, path, order) ==
    LET message == OracleString(s)
        f == format(message, s.args, EmptyMap, base_map, path, order)
    IN  Run(f.out, <<EvOracle(path, message)>> \o f.log)

\* a plural handler that does not bind "n"
handle_plural_unbound(s, base_map, path, order) ==
    LET message == OracleString(s)
        f == format(message, s.args, EmptyMap, base_map, path, order)
    IN  Run(f.out, <<EvOracle(path, message)>> \o f.log)

\* handle_plural!
handle_plural(s, base_map, path, order) ==
    LET map == Insert(EmptyMap, kN, IntegerToString(s.n))
        message == OracleString(s)
        f == format(message, s.args, map, base_map, path, order)
    IN  Run(f.out, <<EvOracle(path, message)>> \o f.log)

\* an Array arm that takes an Array without elements for an empty join
array_arm_lenient(xs, base_map, path, order) ==
    IF Len(xs) = 0 THEN Run(Ok(<< >>), << >>)
    ELSE LET sep == try_into_string(xs[1], base_map,
                                    Append(path, Step("elem", 1, << >>)), order)
         IN  IF ~sep.out.ok THEN sep
             ELSE LET rest == collect(xs, 2, "elem", base_map, path, order)
                  IN  IF ~rest.out.ok THEN Run(rest.out, sep.log \o rest.log)
                      ELSE Run(Ok(join(rest.out.val, sep.out.val)),
                               sep.log \o rest.log)

\* the Array arm of Value::try_into_string
array_arm(xs, base_map, path, order) ==
    IF Len(xs) = 0 THEN Run(Err(MissingJoinSeparator), << >>)
    ELSE LET sep == try_into_string(xs[1], base_map,
                                    Append(path, Step("elem", 1, << >>)), order)
         IN  IF ~sep.out.ok THEN sep
             ELSE LET rest == collect(xs, 2, "elem", base_map, path, order)
                  IN  IF ~rest.out.ok THEN Run(rest.out, sep.log \o rest.log)
                      ELSE Run(Ok(join(rest.out.val, sep.out.val)),
                               sep.log \o rest.log)

\* a Bool arm that prints the literal
bool_arm_raw(b) ==
    IF b THEN <<"t", "r", "u", "e">> ELSE <<"f", "a", "l", "s", "e">>

\* the Bool and Unit arms of Value::try_into_string
bool_arm(b) == IF b THEN gettext(sYes) ELSE gettext(sNo)
unit_arm == gettext(sNA)

\* Value::try_into_string
try_into_string(self, base_map, path, order) ==
    LET r == CASE self.type = "Text" -> Run(Ok(self.text), << >>)
               [] self.type = "Integer" -> Run(Ok(IntegerToString(self.int)), << >>)
               [] self.type = "Float" -> Run(Ok(FloatToString(self.hundredths)), << >>)
               [] self.type = "Bool" ->
                     Run(Ok(bool_arm(self.bool)), <<EvOracle(path, bool_arm(self.bool))>>)
               [] self.type = "Unit" -> Run(Ok(unit_arm), <<EvOracle(path, unit_arm)>>)
               [] self.type = "Datetime" ->
                     Run(Ok(strftime_local(self.strftime, self.epoch)), << >>)
               [] self.type = "Array" -> array_arm(self.xs, base_map, path, order)
               [] self.type = "FormattedText" ->
                     format(self.text, self.args, EmptyMap, base_map, path, order)
               [] self.type \in {"GetText", "PGetText", "DGetText"} ->
                     handle_gettext(self, base_map, path, order)
               [] self.type \in PluralTypes ->
                     handle_plural(self, base_map, path, order)
    IN  Return(path, <<EvResolve(path)>> \o r.log, r.out)

(***************************************************************************)
(* The inputs: the Value trees a deserializer can hand over, the keys and  *)
(* values a caller inserts into the base arguments.                        *)
(***************************************************************************)
\* a two-level argument: a translation whose keyword argument is a translation
NestedGetText ==
    GetText(sHiName, KeywordArgs(kName :> GetText(sHello, NoArgs)))
\* fails for every base map: a positional token formatted against a map
NeedsList == FormattedText(sPosPos, NoArgs)
\* succeeds exactly when the base map binds "name"
NeedsName == FormattedText(sHiName, NoArgs)
\* succeeds exactly when the base map binds "n"
NeedsN == FormattedText(sNItem, NoArgs)
EmptyArray == Array(<< >>)
ScalarArray ==
    Array(<<Text(sComma), Integer(-42), Float(310), Datetime(sAtEpoch, 15), Bool(FALSE)>>)

ElemKids ==
    {Text(sComma), Text(sMarie), Bool(TRUE), Unit, EmptyArray, NeedsName, NestedGetText}
KeywordKids ==
    {Text(sMarie), Bool(TRUE), EmptyArray, NeedsList, NeedsName, NeedsN, NestedGetText}
PositionalKids == {Text(sMarie), Unit, EmptyArray, NeedsName, ScalarArray}

KeyUniverse == {kName, kN}

SeqsUpTo(S, n) == UNION {[1..k -> S] : k \in 0..n}

Formatters ==
    {NoArgs}
    \cup {PositionalArgs(l) : l \in SeqsUpTo(PositionalKids, MaxPositional)}
    \cup {KeywordArgs(m) : m \in UNION {[K -> KeywordKids] : K \in SUBSET KeyUniverse}}

Counts == 0..MaxCount

Values ==
    {Array(xs) : xs \in SeqsUpTo(ElemKids, MaxArrayLen)}
    \cup {FormattedText(t, a) : t \in {sHiName, sPosPos, sPosName}, a \in Formatters}
    \cup {GetText(m, a) : m \in {sHello, sHiName, sPosPos}, a \in Formatters}
    \cup {PGetText(sCtx, sHello, a) : a \in Formatters}
    \cup {DGetText(sDomain, sHiName, a) : a \in Formatters}
    \cup {NGetText(sNItem, sNItems, n, a) : n \in Counts, a \in Formatters}
    \cup {DNGetText(sDomain, sNItem, sNItems, n, a) : n \in Counts, a \in Formatters}
    \cup {NPGetText(sCtx, sPosName, sNItems, n, a) : n \in Counts, a \in Formatters}
    \cup {DCNGetText(sDomain, sNItem, sNItems, n, "measurement", a) :
            n \in Counts, a \in Formatters}

BaseValues == {sGrace}
HashOrders == {<<kName, kN>>, <<kN, kName>>}

(***************************************************************************)
(* Documents: what a self-describing format hands to the derived           *)
(* Deserialize implementations.  Object keys are strings.                  *)
(***************************************************************************)
JString(s) == [json |-> "string", str |-> s]
JInt(i) == [json |-> "int", int |-> i]
JFloat(h) == [json |-> "float", hundredths |-> h]
JBool(b) == [json |-> "bool", bool |-> b]
JNull == [json |-> "null"]
JArray(xs) == [json |-> "array", items |-> xs]
JObject(f) == [json |-> "object", fields |-> f]

\* the field names of the declarations
fText == <<"t", "e", "x", "t">>
fGettext == <<"g", "e", "t", "t", "e", "x", "t">>
fNgettext == <<"n", "g", "e", "t", "t", "e", "x", "t">>
fPgettext == <<"p", "g", "e", "t", "t", "e", "x", "t">>
fDgettext == <<"d", "g", "e", "t", "t", "e", "x", "t">>
fDngettext == <<"d", "n", "g", "e", "t", "t", "e", "x", "t">>
fNpgettext == <<"n", "p", "g", "e", "t", "t", "e", "x", "t">>
fDcngettext == <<"d", "c", "n", "g", "e", "t", "t", "e", "x", "t">>
fArgs == <<"a", "r", "g", "s">>
fStrftime == <<"s", "t", "r", "f", "t", "i", "m", "e">>
fEpoch == <<"e", "p", "o", "c", "h">>
fSingular == <<"s", "i", "n", "g", "u", "l", "a", "r">>
fPlural == <<"p", "l", "u", "r", "a", "l">>
fCtx == <<"c", "t", "x">>
fMsgid == <<"m", "s", "g", "i", "d">>
fDomain == <<"d", "o", "m", "a", "i", "n">>
fCategory == <<"c", "a", "t", "e", "g", "o", "r", "y">>
fN == <<"n">>

\* #[serde(rename = ...)] of LocaleCategory
LocaleCategoryNames ==
    [ctype |-> <<"c", "t", "y", "p", "e">>,
     numeric |-> <<"n", "u", "m", "e", "r", "i", "c">>,
     time |-> <<"t", "i", "m", "e">>,
     collate |-> <<"c", "o", "l", "l", "a", "t", "e">>,
     monetary |-> <<"m", "o", "n", "e", "t", "a", "r", "y">>,
     messages |-> <<"m", "e", "s", "s", "a", "g", "e", "s">>,
     all |-> <<"a", "l", "l">>,
     paper |-> <<"p", "a", "p", "e", "r">>,
     name |-> <<"n", "a", "m", "e">>,
     address |-> <<"a", "d", "d", "r", "e", "s", "s">>,
     telephone |-> <<"t", "e", "l", "e", "p", "h", "o", "n", "e">>,
     measurement |-> <<"m", "e", "a", "s", "u", "r", "e", "m", "e", "n", "t">>,
     identification |-> <<"i", "d", "e", "n", "t", "i", "f", "i", "c", "a", "t", "i", "o", "n">>]

Mismatch == [ok |-> FALSE]

\* String, i64, u32 (a count above 2^32 - 1 is outside the integers modelled)
is_String(doc) == doc.json = "string"
is_i64(doc) == doc.json = "int"
is_u32(doc) == doc.json = "int" /\ doc.int >= 0
\* f64 is read from a float and from an integer
f64_hundredths(doc) == IF doc.json = "int" THEN 100 * doc.int ELSE doc.hundredths
is_f64(doc) == doc.json \in {"int", "float"}

\* a named struct is read from an object, fields by name and unknown keys
\* skipped (no deny_unknown_fields), or from an array of exactly its fields in
\* declared order
struct(doc, names) ==
    IF doc.json = "object" THEN Ok(doc.fields)
    ELSE IF doc.json = "array" /\ Len(doc.items) = Len(names)
         THEN Ok([k \in {names[i] : i \in 1..Len(names)} |->
                    doc.items[CHOOSE i \in 1..Len(names) : names[i] = k]])
         ELSE Mismatch

has_Strings(f, names) == \A k \in names : k \in DOMAIN f /\ is_String(f[k])
has_n(f) == fN \in DOMAIN f /\ is_u32(f[fN])

\* enum LocaleCategory: a unit variant is its name, or an object of the name
\* and null
LocaleCategory_deserialize(doc) ==
    LET named(s) == {c \in DOMAIN LocaleCategoryNames : LocaleCategoryNames[c] = s}
    IN  IF doc.json = "string" /\ named(doc.str) # {}
        THEN Ok(CHOOSE c \in named(doc.str) : TRUE)
        ELSE IF /\ doc.json = "object"
                /\ Cardinality(DOMAIN doc.fields) = 1
                /\ \E k \in DOMAIN doc.fields : named(k) # {} /\ doc.fields[k] = JNull
             THEN Ok(CHOOSE c \in DOMAIN LocaleCategoryNames :
                        LocaleCategoryNames[c] \in DOMAIN doc.fields)
             ELSE Mismatch

RECURSIVE Value_deserialize(_)

\* Vec<Value>
Vec_deserialize(doc) ==
    IF doc.json # "array" THEN Mismatch
    ELSE LET rs == [i \in DOMAIN doc.items |-> Value_deserialize(doc.items[i])]
         IN  IF \A i \in DOMAIN rs : rs[i].ok
             THEN Ok([i \in DOMAIN rs |-> rs[i].val])
             ELSE Mismatch

\* HashMap<String, Value>
HashMap_deserialize(doc) ==
    IF doc.json # "object" THEN Mismatch
    ELSE LET rs == [k \in DOMAIN doc.fields |-> Value_deserialize(doc.fields[k])]
         IN  IF \A k \in DOMAIN rs : rs[k].ok
             THEN Ok([k \in DOMAIN rs |-> rs[k].val])
             ELSE Mismatch

\* enum Formatter, untagged: KeywordArgs, then PositionalArgs
Formatter_deserialize(doc) ==
    LET kw == HashMap_deserialize(doc)
        pos == Vec_deserialize(doc)
    IN  IF kw.ok THEN Ok(KeywordArgs(kw.val))
        ELSE IF pos.ok THEN Ok(PositionalArgs(pos.val))
        ELSE Mismatch

\* args: Option<Formatter>: a missing key and null are None
Option_Formatter(f) ==
    IF fArgs \notin DOMAIN f \/ f[fArgs] = JNull THEN Ok(NoArgs)
    ELSE Formatter_deserialize(f[fArgs])

\* struct DatetimeValue
DatetimeValue_deserialize(doc) ==
    LET s == struct(doc, <<fStrftime, fEpoch>>)
    IN  IF s.ok /\ has_Strings(s.val, {fStrftime})
               /\ fEpoch \in DOMAIN s.val /\ is_i64(s.val[fEpoch])
        THEN Ok(Datetime(s.val[fStrftime].str, s.val[fEpoch].int))
        ELSE Mismatch

\* a struct variant of the untagged enum is read from an object only; its tag
\* field holds one of the Value*GetText structs
TagVariant(doc, tag, names, plural) ==
    IF doc.json # "object" \/ tag \notin DOMAIN doc.fields THEN Mismatch
    ELSE LET s == struct(doc.fields[tag], names)
             a == Option_Formatter(doc.fields)
         IN  IF /\ s.ok
                /\ has_Strings(s.val, {names[i] : i \in 1..Len(names)} \ {fN, fCategory})
                /\ plural => has_n(s.val)
                /\ a.ok
             THEN Ok([s |-> s.val, a |-> a.val])
             ELSE Mismatch

\* the variants of Value in declared order
Variants ==
    <<"Text", "Integer", "Float", "Bool", "Unit", "Datetime", "Array",
      "FormattedText", "GetText", "NGetText", "PGetText", "DGetText",
      "DNGetText", "NPGetText", "DCNGetText">>

\* the matcher of one variant
Variant_deserialize(variant, doc) ==
    CASE variant = "Text" -> IF is_String(doc) THEN Ok(Text(doc.str)) ELSE Mismatch
      [] variant = "Integer" -> IF is_i64(doc) THEN Ok(Integer(doc.int)) ELSE Mismatch
      [] variant = "Float" ->
            IF is_f64(doc) THEN Ok(Float(f64_hundredths(doc))) ELSE Mismatch
      [] variant = "Bool" -> IF doc.json = "bool" THEN Ok(Bool(doc.bool)) ELSE Mismatch
      [] variant = "Unit" -> IF doc = JNull THEN Ok(Unit) ELSE Mismatch
      [] variant = "Datetime" -> DatetimeValue_deserialize(doc)
      [] variant = "Array" ->
            LET v == Vec_deserialize(doc)
            IN  IF v.ok THEN Ok(Array(v.val)) ELSE Mismatch
      [] variant = "FormattedText" ->
            IF doc.json = "object" /\ has_Strings(doc.fields, {fText})
                                   /\ Option_Formatter(doc.fields).ok
            THEN Ok(FormattedText(doc.fields[fText].str, Option_Formatter(doc.fields).val))
            ELSE Mismatch
      [] variant = "GetText" ->
            IF doc.json = "object" /\ has_Strings(doc.fields, {fGettext})
                                   /\ Option_Formatter(doc.fields).ok
            THEN Ok(GetText(doc.fields[fGettext].str, Option_Formatter(doc.fields).val))
            ELSE Mismatch
      [] variant = "NGetText" ->
            LET t == TagVariant(doc, fNgettext, <<fSingular, fPlural, fN>>, TRUE)
            IN  IF t.ok
                THEN Ok(NGetText(t.val.s[fSingular].str, t.val.s[fPlural].str,
                                 t.val.s[fN].int, t.val.a))
                ELSE Mismatch
      [] variant = "PGetText" ->
            LET t == TagVariant(doc, fPgettext, <<fCtx, fMsgid>>, FALSE)
            IN  IF t.ok
                THEN Ok(PGetText(t.val.s[fCtx].str, t.val.s[fMsgid].str, t.val.a))
                ELSE Mismatch
      [] variant = "DGetText" ->
            LET t == TagVariant(doc, fDgettext, <<fDomain, fMsgid>>, FALSE)
            IN  IF t.ok
                THEN Ok(DGetText(t.val.s[fDomain].str, t.val.s[fMsgid].str, t.val.a))
                ELSE Mismatch
      [] variant = "DNGetText" ->
            LET t == TagVariant(doc, fDngettext,
                                <<fDomain, fSingular, fPlural, fN>>, TRUE)
            IN  IF t.ok
                THEN Ok(DNGetText(t.val.s[fDomain].str, t.val.s[fSingular].str,
                                  t.val.s[fPlural].str, t.val.s[fN].int, t.val.a))
                ELSE Mismatch
      [] variant = "NPGetText" ->
            LET t == TagVariant(doc, fNpgettext, <<fCtx, fSingular, fPlural, fN>>, TRUE)
            IN  IF t.ok
                THEN Ok(NPGetText(t.val.s[fCtx].str, t.val.s[fSingular].str,
                                  t.val.s[fPlural].str, t.val.s[fN].int, t.val.a))
                ELSE Mismatch
      [] variant = "DCNGetText" ->
            LET t == TagVariant(doc, fDcngettext,
                                <<fDomain, fSingular, fPlural, fN, fCategory>>, TRUE)
            IN  IF /\ t.ok
                   /\ fCategory \in DOMAIN t.val.s
                   /\ LocaleCategory_deserialize(t.val.s[fCategory]).ok
                THEN Ok(DCNGetText(t.val.s[fDomain].str, t.val.s[fSingular].str,
                                   t.val.s[fPlural].str, t.val.s[fN].int,
                                   LocaleCategory_deserialize(t.val.s[fCategory]).val,
                                   t.val.a))
                ELSE Mismatch

\* #[serde(untagged)] enum Value: the first variant whose matcher accepts
Value_deserialize(doc) ==
    LET hits == {i \in DOMAIN Variants : Variant_deserialize(Variants[i], doc).ok}
    IN  IF hits = {} THEN Mismatch
        ELSE Variant_deserialize(
                Variants[CHOOSE i \in hits : \A j \in hits : i <= j], doc)

\* struct SerdeGetText: #[serde(flatten)] value reads the fields of the
\* message's own object
SerdeGetText_deserialize(doc) ==
    IF doc.json = "object" THEN Value_deserialize(doc) ELSE Mismatch

(***************************************************************************)
(* The documents deserialized: objects of up to MaxKeys of the variants'   *)
(* keys, with and without "args".                                          *)
(***************************************************************************)
MaxKeys == 2

Payload ==
    fText :> {JString(sHiName)}
    @@ fGettext :> {JString(sHello), JInt(7)}
    @@ fNgettext :> {JObject(fSingular :> JString(sNItem) @@ fPlural :> JString(sNItems)
                             @@ fN :> JInt(2)),
                     JArray(<<JString(sNItem), JString(sNItems), JInt(-1)>>)}
    @@ fPgettext :> {JObject(fCtx :> JString(sCtx) @@ fMsgid :> JString(sHello))}
    @@ fDgettext :> {JArray(<<JString(sDomain), JString(sHiName)>>)}
    @@ fDngettext :> {JObject(fDomain :> JString(sDomain) @@ fSingular :> JString(sNItem)
                              @@ fPlural :> JString(sNItems) @@ fN :> JInt(1))}
    @@ fNpgettext :> {JObject(fCtx :> JString(sCtx) @@ fSingular :> JString(sPosName)
                              @@ fPlural :> JString(sNItems) @@ fN :> JInt(0))}
    @@ fDcngettext :> {JObject(fDomain :> JString(sDomain) @@ fSingular :> JString(sNItem)
                               @@ fPlural :> JString(sNItems) @@ fN :> JInt(2)
                               @@ fCategory :> JString(LocaleCategoryNames.measurement)),
                       JObject(fDomain :> JString(sDomain) @@ fSingular :> JString(sNItem)
                               @@ fPlural :> JString(sNItems) @@ fN :> JInt(2)
                               @@ fCategory :> JString(sMarie))}
    @@ fStrftime :> {JString(sAtEpoch)}
    @@ fEpoch :> {JInt(15)}

ArgsDocs ==
    {JNull,
     JString(sMarie),
     JArray(<<JString(sMarie), JInt(5)>>),
     JArray(<<JArray(<<JString(sComma), JInt(5)>>), JFloat(310)>>),
     JArray(<<JBool(TRUE), JNull>>),
     JObject(kName :> JString(sMarie)),
     JObject(kName :> JObject(fText :> JString(sMarie) @@ fGettext :> JString(sHello)))}

Documents ==
    LET tagged == UNION {[K -> UNION {Payload[k] : k \in K}] :
                           K \in {S \in SUBSET DOMAIN Payload :
                                    Cardinality(S) \in 1..MaxKeys}}
        proper == {f \in tagged : \A k \in DOMAIN f : f[k] \in Payload[k]}
    IN  {JObject(f) : f \in proper}
        \cup {JObject(f @@ fArgs :> a) : f \in proper, a \in ArgsDocs}

(***************************************************************************)
(* State: one deserialized SerdeGetText (value, args) and what the last    *)
(* conversions of it returned.                                             *)
(***************************************************************************)
VARIABLES document, value, args, result, prev, trace
vars == <<document, value, args, result, prev, trace>>

NoResult == [none |-> TRUE]
\* no document at hand: the message was handed over deserialized
NoDocument == [json |-> "none"]
\* no message yet: the document has not been deserialized
NoValue == [type |-> "none"]

\* Deserialize: `args` is #[serde(skip)], so it starts empty
Init ==
    /\ document = NoDocument
    /\ value \in Values
    /\ args = EmptyMap
    /\ result = NoResult
    /\ prev = NoResult
    /\ trace = << >>

\* message.args.insert(key, v)
ArgsInsert(key, v) ==
    /\ args' = Insert(args, key, v)
    /\ result' = NoResult
    /\ prev' = NoResult
    /\ trace' = << >>
    /\ UNCHANGED <<document, value>>

\* String::try_from(message) on a message holding this value and these args
\* (try_from consumes its argument; the caller converts a clone or a second
\* deserialization of the same document).  The iteration order of the keyword
\* HashMaps is not fixed by the program.
TryFrom(order) ==
    LET r == try_into_string(value, args, << >>, order)
    IN  /\ result' = r.out
        /\ prev' = result
        /\ trace' = r.log
        /\ UNCHANGED <<document, value, args>>

Next ==
    \/ \E key \in KeyUniverse, v \in BaseValues : ArgsInsert(key, v)
    \/ \E order \in HashOrders : TryFrom(order)

Spec == Init /\ [][Next]_vars

\* a document arrives and is deserialized before anything else is done
InitDocument ==
    /\ document \in Documents
    /\ value = NoValue
    /\ args = EmptyMap
    /\ result = NoResult
    /\ prev = NoResult
    /\ trace = << >>

\* SerdeGetText::deserialize(&document)
Deserialize ==
    /\ value = NoValue
    /\ SerdeGetText_deserialize(document).ok
    /\ value' = SerdeGetText_deserialize(document).val
    /\ UNCHANGED <<document, args, result, prev, trace>>

NextDocument ==
    \/ Deserialize
    \/ \E key \in KeyUniverse, v \in BaseValues : value # NoValue /\ ArgsInsert(key, v)
    \/ \E order \in HashOrders : value # NoValue /\ TryFrom(order)

SpecDocument == InitDocument /\ [][NextDocument]_vars

(***************************************************************************)
(* Reading the record of the last conversion.                              *)
(***************************************************************************)
RECURSIVE NodeAt(_, _)
NodeAt(v, path) ==
    IF Len(path) = 0 THEN v
    ELSE LET s == Head(path)
             child == CASE s.in = "elem" -> v.xs[s.i]
                        [] s.in = "arg" -> v.args.list[s.i]
                        [] s.in = "kwarg" -> v.args.kwargs[s.key]
         IN  NodeAt(child, Tail(path))

Returns == {i \in DOMAIN trace : trace[i].ev = "return"}
Formats == {i \in DOMAIN trace : trace[i].ev = "format"}
Resolves == {i \in DOMAIN trace : trace[i].ev = "resolve"}
ReturnedAt(p) == \E i \in Returns : trace[i].path = p
OutAt(p) == trace[CHOOSE i \in Returns : trace[i].path = p].out

\* the outcomes of resolving v on its own against the current base map
Outcomes(v) == {try_into_string(v, args, << >>, o).out : o \in HashOrders}
Resolvable(v) == \A out \in Outcomes(v) : out.ok
Resolved(v) == (CHOOSE out \in Outcomes(v) : TRUE).val

RECURSIVE Concat(_)
Concat(ss) == IF Len(ss) = 0 THEN << >> ELSE Head(ss) \o Concat(Tail(ss))

\* <<s1, sep, s2, sep, ..., sn>>
Interleave(strs, sep) ==
    [i \in 1..(2 * Len(strs) - 1) |-> IF i % 2 = 1 THEN strs[(i + 1) \div 2] ELSE sep]

(***************************************************************************)
(* C1: every Array node with at least one element whose children all       *)
(* resolve against the base map resolves to the resolved strings of its    *)
(* elements after the first, in their order, with the resolved first       *)
(* element between each adjacent pair and nowhere else; an Array of the    *)
(* separator alone gives the empty string and one of two elements gives    *)
(* its second element's string.                                            *)
(***************************************************************************)
C1_ArrayJoin ==
    \A i \in Returns :
        LET node == NodeAt(value, trace[i].path)
        IN  (/\ node.type = "Array"
             /\ Len(node.xs) >= 1
             /\ \A j \in 1..Len(node.xs) : Resolvable(node.xs[j]))
            => LET sep == Resolved(node.xs[1])
                   strs == [j \in 1..(Len(node.xs) - 1) |-> Resolved(node.xs[j + 1])]
               IN  /\ trace[i].out = Ok(Concat(Interleave(strs, sep)))
                   /\ Len(node.xs) = 1 => trace[i].out = Ok(<< >>)
                   /\ Len(node.xs) = 2 => trace[i].out = Ok(strs[1])

\* an Array of a separator and two elements was joined
C1_Witness ==
    /\ value.type = "Array"
    /\ Len(value.xs) = 3
    /\ result # NoResult
    /\ result.ok
    /\ result.val = sMarie \o sComma \o sOui

(***************************************************************************)
(* C2: an Array node without elements resolves to the error                *)
(* MissingJoinSeparator wherever it stands in the tree and whatever the    *)
(* base map holds.                                                         *)
(***************************************************************************)
C2_EmptyArrayFails ==
    \A i \in Returns :
        LET node == NodeAt(value, trace[i].path)
        IN  (node.type = "Array" /\ Len(node.xs) = 0)
            => trace[i].out = Err(MissingJoinSeparator)

\* an empty Array below the root was resolved with a non-empty base map
C2_Witness ==
    /\ DOMAIN args # {}
    /\ \E i \in Returns :
          /\ Len(trace[i].path) > 0
          /\ NodeAt(value, trace[i].path) = EmptyArray
          /\ trace[i].path[1].in = "kwarg"
    /\ result = Err(MissingJoinSeparator)

(***************************************************************************)
(* Templates with a single placeholder, and what filling it must give.     *)
(***************************************************************************)
Placeholder(k) == <<"%", "(">> \o k \o <<")", "s">>
SplitsAt(message, k, j) ==
    /\ j + Len(Placeholder(k)) - 1 <= Len(message)
    /\ SubSeq(message, j, j + Len(Placeholder(k)) - 1) = Placeholder(k)
OnePlaceholder(message) ==
    Cardinality({j \in 1..Len(message) : message[j] = "%"}) = 1
HasNamed(message) ==
    \E k \in KeyUniverse, j \in 1..Len(message) : SplitsAt(message, k, j)
Filled(message, k, j, v) ==
    SubSeq(message, 1, j - 1) \o v
        \o SubSeq(message, j + Len(Placeholder(k)), Len(message))
IsFormatError(out) == ~out.ok /\ out.err.kind = "FormatError"

(***************************************************************************)
(* C3: on a node with keyword arguments, a key bound in the node's own     *)
(* arguments is substituted by the resolved local value whether or not the *)
(* base map binds it too; the base value is substituted only for a key the *)
(* local mapping does not bind.                                            *)
(***************************************************************************)
C3_OverlayPrecedence ==
    \A i \in Formats :
        LET p == trace[i].path
            node == NodeAt(value, p)
            message == trace[i].message
        IN  node.args.kind = "KeywordArgs" =>
              \A k \in KeyUniverse, j \in 1..Len(message) :
                 (OnePlaceholder(message) /\ SplitsAt(message, k, j)) =>
                    IF k \in DOMAIN node.args.kwargs
                    THEN OutAt(p) = Ok(Filled(message, k, j, Resolved(node.args.kwargs[k])))
                    ELSE (k \in DOMAIN args /\ ~(node.type \in PluralTypes /\ k = kN))
                         => OutAt(p) = Ok(Filled(message, k, j, args[k]))

\* "name" is bound to Marie on the node and to Grace in the base map
C3_Witness ==
    /\ value.type \in SimpleTypes
    /\ value.args.kind = "KeywordArgs"
    /\ kName \in DOMAIN value.args.kwargs
    /\ value.args.kwargs[kName] = Text(sMarie)
    /\ kName \in DOMAIN args
    /\ args[kName] = sGrace
    /\ result = Ok(<<"H", "i", " ">> \o sMarie \o <<"!">>)

(***************************************************************************)
(* C4: on a plural node whose arguments are absent or keyword-shaped, the  *)
(* named lookup binds "n" to the decimal text of the node's count, and a   *)
(* template %(n)s ... is rendered with it.                                 *)
(* As claimed (C4_AsClaimed), for every such node; as amended              *)
(* (C4_ImplicitCount), for the nodes whose keyword arguments do not bind   *)
(* "n" themselves.                                                         *)
(***************************************************************************)
CountBound(i) ==
    LET p == trace[i].path
        node == NodeAt(value, p)
        message == trace[i].message
    IN  /\ kN \in DOMAIN trace[i].fargs.a
        /\ trace[i].fargs.a[kN] = IntegerToString(node.n)
        /\ (OnePlaceholder(message) /\ SplitsAt(message, kN, 1))
              => OutAt(p) = Ok(Filled(message, kN, 1, IntegerToString(node.n)))

C4_AsClaimed ==
    \A i \in Formats :
        LET node == NodeAt(value, trace[i].path)
        IN  (node.type \in PluralTypes /\ node.args.kind \in {"None", "KeywordArgs"})
            => CountBound(i)

C4_ImplicitCount ==
    \A i \in Formats :
        LET node == NodeAt(value, trace[i].path)
        IN  (/\ node.type \in PluralTypes
             /\ \/ node.args.kind = "None"
                \/ node.args.kind = "KeywordArgs" /\ kN \notin DOMAIN node.args.kwargs)
            => CountBound(i)

\* a plural node without arguments rendered its count, the base map being empty
C4_Witness ==
    /\ value.type = "NGetText"
    /\ value.n = 2
    /\ value.args.kind = "None"
    /\ DOMAIN args = {}
    /\ result = Ok(<<"2">> \o SubSeq(sNObjets, 6, Len(sNObjets)))

(***************************************************************************)
(* C5: on a node with positional arguments the formatter is given the      *)
(* resolved argument strings in order and nothing else: a template naming  *)
(* a key (the plural "n" or a key of the base map included) ends in        *)
(* FormatError, and the i-th %s takes the i-th string.                     *)
(***************************************************************************)
C5_PositionalOnly ==
    \A i \in Formats :
        LET p == trace[i].path
            node == NodeAt(value, p)
            message == trace[i].message
            fargs == trace[i].fargs
        IN  node.args.kind = "PositionalArgs" =>
              /\ DOMAIN fargs = {"list"}
              /\ Len(fargs.list) = Len(node.args.list)
              /\ \A j \in 1..Len(fargs.list) : fargs.list[j] = Resolved(node.args.list[j])
              /\ HasNamed(message) => IsFormatError(OutAt(p))
              /\ (message = sPosPos /\ Len(fargs.list) >= 2)
                    => OutAt(p) = Ok(fargs.list[1] \o <<"+">> \o fargs.list[2])

\* a plural node with positional arguments and a template naming "n", the base
\* map binding "n": the formatter ran and failed
C5_Witness ==
    /\ value.type = "NGetText"
    /\ value.args.kind = "PositionalArgs"
    /\ Len(value.args.list) = 2
    /\ kN \in DOMAIN args
    /\ \E i \in Formats : trace[i].path = << >> /\ HasNamed(trace[i].message)
    /\ result # NoResult
    /\ IsFormatError(result)

(***************************************************************************)
(* C6: a FormattedText, GetText, PGetText or DGetText node without         *)
(* arguments still goes through the formatter, which looks names up in the *)
(* base map and nowhere else: %(k)s becomes base[k], and a key the base    *)
(* map lacks does not resolve.                                             *)
(***************************************************************************)
C6_BaseOnly ==
    \A i \in Returns :
        LET p == trace[i].path
            node == NodeAt(value, p)
        IN  (node.type \in SimpleTypes /\ node.args.kind = "None") =>
              \E f \in Formats :
                 /\ trace[f].path = p
                 /\ f < i
                 /\ trace[f].fargs = UnionMap(EmptyMap, args)
                 /\ \A k \in KeyUniverse, j \in 1..Len(trace[f].message) :
                       (OnePlaceholder(trace[f].message) /\ SplitsAt(trace[f].message, k, j))
                       => IF k \in DOMAIN args
                          THEN trace[i].out = Ok(Filled(trace[f].message, k, j, args[k]))
                          ELSE IsFormatError(trace[i].out)

\* a key inserted after deserialization is substituted into a node without args
C6_Witness ==
    /\ value = FormattedText(sHiName, NoArgs)
    /\ kName \in DOMAIN args
    /\ result = Ok(<<"H", "i", " ">> \o sGrace \o <<"!">>)

(***************************************************************************)
(* C7: when the resolution of a child of a node (an Array's separator or   *)
(* element, a positional or keyword argument value) returns an error, the  *)
(* node returns that very error, its formatter is not invoked, and in an   *)
(* Array or positional sequence every child before the failing one         *)
(* succeeded and no child after it is resolved.                            *)
(***************************************************************************)
IsChildOf(c, p) == Len(c) = Len(p) + 1 /\ SubSeq(c, 1, Len(p)) = p

C7_FailFast ==
    \A r \in Returns, c \in Returns :
        LET p == trace[r].path
            cp == trace[c].path
            last == cp[Len(cp)]
        IN  (IsChildOf(cp, p) /\ ~trace[c].out.ok) =>
              /\ c < r
              /\ trace[r].out = trace[c].out
              /\ \A f \in Formats : trace[f].path # p
              /\ last.in \in {"elem", "arg"} =>
                    /\ \A j \in 1..(last.i - 1) :
                          /\ ReturnedAt(Append(p, Step(last.in, j, << >>)))
                          /\ OutAt(Append(p, Step(last.in, j, << >>))).ok
                    /\ \A q \in Resolves :
                          IsChildOf(trace[q].path, p)
                             => trace[q].path[Len(cp)].i <= last.i

\* the first positional argument failed on a missing key, the second (an empty
\* Array) was never resolved, and the node returned the first one's error
C7_Witness ==
    /\ value.type = "GetText"
    /\ value.args = PositionalArgs(<<NeedsName, EmptyArray>>)
    /\ result = Err(FormatError(Diag("MissingArg", kName)))
    /\ \A q \in Resolves : trace[q].path # <<Step("arg", 2, << >>)>>
    /\ \E q \in Resolves : trace[q].path = <<Step("arg", 1, << >>)>>

(***************************************************************************)
(* C8: two conversions of the same Value tree with the same base map       *)
(* return the same outcome: the same string, or the same error with the    *)
(* same diagnostic.                                                        *)
(***************************************************************************)
C8_Deterministic ==
    (prev # NoResult /\ result # NoResult) => prev = result

(***************************************************************************)
(* C9: the strings handed to the formatter are the results of resolving    *)
(* each argument Value on its own against the same base map: when every    *)
(* argument of a node resolves, the formatter is invoked with exactly      *)
(* those strings, under their keys or in their positions.                  *)
(***************************************************************************)
C9_ArgsResolvedFirst ==
    \A r \in Returns :
        LET p == trace[r].path
            node == NodeAt(value, p)
        IN  /\ (/\ node.type \in SimpleTypes \cup PluralTypes
                /\ node.args.kind = "KeywordArgs"
                /\ \A k \in DOMAIN node.args.kwargs : Resolvable(node.args.kwargs[k]))
               => \E f \in Formats :
                     /\ trace[f].path = p
                     /\ f < r
                     /\ \A k \in DOMAIN node.args.kwargs :
                           /\ k \in DOMAIN trace[f].fargs.a
                           /\ trace[f].fargs.a[k] = Resolved(node.args.kwargs[k])
            /\ (/\ node.type \in SimpleTypes \cup PluralTypes
                /\ node.args.kind = "PositionalArgs"
                /\ \A j \in 1..Len(node.args.list) : Resolvable(node.args.list[j]))
               => \E f \in Formats :
                     /\ trace[f].path = p
                     /\ f < r
                     /\ trace[f].fargs.list =
                           [j \in 1..Len(node.args.list) |-> Resolved(node.args.list[j])]

\* a GetText whose keyword value is a GetText with keyword arguments of its own:
\* the outer template received the inner node's substituted text
C9_Witness ==
    /\ value = GetText(sHiName, KeywordArgs(kName :> NestedGetText))
    /\ result = Ok(<<"H", "i", " ", "H", "i", " ">> \o sSalut \o <<"!", "!">>)

(***************************************************************************)
(* C10: a Bool or Unit leaf, wherever it stands, resolves to what the      *)
(* translation oracle returns for "yes", "no" or "n/a", and the oracle was *)
(* called for it; never to "true", "false" or the empty string.            *)
(***************************************************************************)
C10_BoolUnitViaOracle ==
    \A r \in Returns :
        LET p == trace[r].path
            node == NodeAt(value, p)
        IN  node.type \in {"Bool", "Unit"} =>
              /\ trace[r].out =
                    Ok(Translate("LcMessages", DefaultDomain, NoCtx,
                                 IF node.type = "Unit" THEN sNA
                                 ELSE IF node.bool THEN sYes ELSE sNo))
              /\ trace[r].out.val \notin
                    {<<"t", "r", "u", "e">>, <<"f", "a", "l", "s", "e">>, << >>}
              /\ \E o \in DOMAIN trace :
                    /\ trace[o].ev = "oracle"
                    /\ trace[o].path = p
                    /\ o < r
                    /\ trace[o].template = trace[r].out.val

\* Bool(true) and Unit as Array elements: the translated "yes", the fallback "n/a"
C10_Witness ==
    /\ value = Array(<<Text(sComma), Bool(TRUE), Unit>>)
    /\ result = Ok(sOui \o sComma \o sNA)

(***************************************************************************)
(* C11: a reference nothing binds is an error.  When the template names a  *)
(* key bound neither by the node (its keyword arguments, the plural "n")   *)
(* nor by the base map, or holds more %s than there are positional         *)
(* arguments, the node returns FormatError with the formatter's            *)
(* diagnostic, and no string.                                              *)
(***************************************************************************)
OwnKeys(node) ==
    (IF node.args.kind = "KeywordArgs" THEN DOMAIN node.args.kwargs ELSE {})
    \cup (IF node.type \in PluralTypes THEN {kN} ELSE {})
PositionalTokens(message) ==
    Cardinality({j \in 1..(Len(message) - 1) : message[j] = "%" /\ message[j + 1] = "s"})

C11_UnresolvedIsError ==
    \A f \in Formats :
        LET p == trace[f].path
            node == NodeAt(value, p)
            message == trace[f].message
            out == OutAt(p)
        IN  /\ node.args.kind \in {"None", "KeywordArgs"} =>
                 \A k \in KeyUniverse, j \in 1..Len(message) :
                    (/\ SplitsAt(message, k, j)
                     /\ k \notin OwnKeys(node)
                     /\ k \notin DOMAIN args)
                    => /\ IsFormatError(out)
                       /\ OnePlaceholder(message)
                             => out = Err(FormatError(Diag("MissingArg", k)))
            /\ (/\ node.args.kind = "PositionalArgs"
                /\ PositionalTokens(message) > Len(node.args.list))
               => /\ IsFormatError(out)
                  /\ ~HasNamed(message)
                        => out = Err(FormatError(Diag("MissingArg",
                                         IntegerToString(Len(node.args.list)))))

\* a template naming "name", which neither the node (it binds "n") nor the base
\* map binds: the formatter's missing-argument diagnostic comes back
C11_Witness ==
    /\ value = FormattedText(sHiName, KeywordArgs(kN :> Text(sMarie)))
    /\ kName \notin DOMAIN args
    /\ \E f \in Formats : trace[f].path = << >>
    /\ result = Err(FormatError(Diag("MissingArg", kName)))

(***************************************************************************)
(* C13: within one translation node the oracle is asked exactly once, and  *)
(* before anything is done for the node's arguments (so before any oracle  *)
(* lookup of a nested node); the formatter is invoked only after every     *)
(* argument has resolved.  The lookup has therefore been made when an      *)
(* argument fails.                                                         *)
(***************************************************************************)
TranslationTypes == {"GetText", "PGetText", "DGetText"} \cup PluralTypes
IsBelow(q, p) == Len(q) > Len(p) /\ SubSeq(q, 1, Len(p)) = p
ArgumentPaths(node, p) ==
    CASE node.args.kind = "KeywordArgs" ->
            {Append(p, Step("kwarg", 0, k)) : k \in DOMAIN node.args.kwargs}
      [] node.args.kind = "PositionalArgs" ->
            {Append(p, Step("arg", j, << >>)) : j \in 1..Len(node.args.list)}
      [] node.args.kind = "None" -> {}

C13_OracleFirst ==
    \A r \in Returns :
        LET p == trace[r].path
            node == NodeAt(value, p)
            lookups == {o \in DOMAIN trace : trace[o].ev = "oracle" /\ trace[o].path = p}
        IN  node.type \in TranslationTypes =>
              /\ Cardinality(lookups) = 1
              /\ \A o \in lookups :
                    /\ o < r
                    /\ \A q \in DOMAIN trace : IsBelow(trace[q].path, p) => o < q
              /\ \A f \in Formats :
                    trace[f].path = p =>
                       /\ \A q \in DOMAIN trace : IsBelow(trace[q].path, p) => q < f
                       /\ \A c \in ArgumentPaths(node, p) : ReturnedAt(c) /\ OutAt(c).ok

\* a translation whose keyword argument failed: the oracle had been asked for
\* the node's template, the formatter was not reached
C13_Witness ==
    /\ value.type = "GetText"
    /\ value.args.kind = "KeywordArgs"
    /\ result = Err(MissingJoinSeparator)
    /\ \E o \in DOMAIN trace : trace[o].ev = "oracle" /\ trace[o].path = << >>
    /\ \A f \in Formats : trace[f].path # << >>

(***************************************************************************)
(* C14: the local bindings of a node are its own.  Each formatter call     *)
(* looks names up in a local mapping holding the node's keyword arguments  *)
(* and, on a plural node, "n", and nothing of any other node, and then in  *)
(* the caller's base map as it is; a template naming a key that only an    *)
(* ancestor, a sibling or a child binds ends in FormatError.               *)
(***************************************************************************)
BoundElsewhere(k, p) ==
    \E q \in Resolves :
        /\ trace[q].path # p
        /\ NodeAt(value, trace[q].path).type \in SimpleTypes \cup PluralTypes
        /\ k \in OwnKeys(NodeAt(value, trace[q].path))

C14_LocalScope ==
    \A f \in Formats :
        LET p == trace[f].path
            node == NodeAt(value, p)
            message == trace[f].message
            fargs == trace[f].fargs
        IN  node.args.kind \in {"None", "KeywordArgs"} =>
              /\ DOMAIN fargs.a = OwnKeys(node)
              /\ fargs.b = args
              /\ \A k \in KeyUniverse, j \in 1..Len(message) :
                    (/\ SplitsAt(message, k, j)
                     /\ BoundElsewhere(k, p)
                     /\ k \notin OwnKeys(node)
                     /\ k \notin DOMAIN args)
                    => IsFormatError(OutAt(p))

\* a plural node binds "n" and "name"; its keyword value names "n" without
\* binding it and fails, the base map being empty
C14_Witness ==
    /\ value.type = "NGetText"
    /\ value.args = KeywordArgs(kName :> NeedsN)
    /\ DOMAIN args = {}
    /\ \E f \in Formats : trace[f].path = <<Step("kwarg", 0, kName)>>
    /\ result = Err(FormatError(Diag("MissingArg", kN)))

(***************************************************************************)
(* C15: on a plural node whose keyword arguments bind "n", the local       *)
(* mapping holds the resolved argument under "n" and not the count, so     *)
(* %(n)s is substituted by the argument; the template is still the form    *)
(* the oracle selects for the node's count.                                *)
(***************************************************************************)
C15_ExplicitNWins ==
    \A f \in Formats :
        LET p == trace[f].path
            node == NodeAt(value, p)
            message == trace[f].message
        IN  (/\ node.type \in PluralTypes
             /\ node.args.kind = "KeywordArgs"
             /\ kN \in DOMAIN node.args.kwargs)
            => /\ trace[f].fargs.a[kN] = Resolved(node.args.kwargs[kN])
               /\ message =
                     TranslatePlural(IF node.type = "DCNGetText"
                                     THEN LocaleCategoryInto[node.category]
                                     ELSE "LcMessages",
                                     IF node.type \in {"DNGetText", "DCNGetText"}
                                     THEN node.domain ELSE DefaultDomain,
                                     IF node.type = "NPGetText" THEN node.ctx ELSE NoCtx,
                                     node.singular, node.plural, node.n)
               /\ (node.type = "NGetText" /\ node.singular = sNItem)
                     => message = IF node.n > 1 THEN sNObjets ELSE sNObjet
               /\ (OnePlaceholder(message) /\ SplitsAt(message, kN, 1))
                     => OutAt(p) = Ok(Filled(message, kN, 1,
                                             Resolved(node.args.kwargs[kN])))

\* count 2 selects the plural form, and %(n)s shows the argument "Marie"
C15_Witness ==
    /\ value = NGetText(sNItem, sNItems, 2, KeywordArgs(kN :> Text(sMarie)))
    /\ result = Ok(sMarie \o SubSeq(sNObjets, 6, Len(sNObjets)))

(***************************************************************************)
(* C12: no document is accepted by the matchers of two variants: for the   *)
(* deserialized document and every document nested at a Value position in  *)
(* it, at most one variant of Value accepts, so the declared order never   *)
(* decides.                                                                *)
(***************************************************************************)
Accepting(doc) == {v \in {Variants[i] : i \in DOMAIN Variants} :
                      Variant_deserialize(v, doc).ok}

RECURSIVE ValueDocuments(_)
ValueDocuments(doc) ==
    {doc} \cup
    (IF doc.json = "array"
     THEN UNION {ValueDocuments(doc.items[i]) : i \in DOMAIN doc.items}
     ELSE IF doc.json = "object" /\ fArgs \in DOMAIN doc.fields
          THEN LET a == doc.fields[fArgs]
               IN  IF a.json = "array"
                   THEN UNION {ValueDocuments(a.items[i]) : i \in DOMAIN a.items}
                   ELSE IF a.json = "object"
                        THEN UNION {ValueDocuments(a.fields[k]) : k \in DOMAIN a.fields}
                        ELSE {}
          ELSE {})

C12_Unambiguous ==
    value # NoValue /\ document # NoDocument =>
        \A d \in ValueDocuments(document) : Cardinality(Accepting(d)) <= 1

=============================================================================
